---- MODULE Spec2Model ----
(***************************************************************************)
(* Model of verl/utils/reward_score/think_answer_format.py: the reward     *)
(* function for the "...</think><answer>...</answer>" response format.     *)
(*                                                                         *)
(* A Python str is a sequence of one-character strings.  The module's four *)
(* functions are pure; the state is one call of one of them: the function  *)
(* called (fn), its arguments (args), whether it has returned (pc), what   *)
(* it returned (ret) and the exception it raised, if any (raised).         *)
(*                                                                         *)
(* Rewards are Python floats; they are counted here in units of one half   *)
(* (the default weight 0.5 is 1, a total of 1.0 is 2), which float         *)
(* addition adds exactly.                                                  *)
(***************************************************************************)
EXTENDS Integers, Sequences, FiniteSets

VARIABLES pc, fn, args, ret, raised

vars == <<pc, fn, args, ret, raised>>

(***************************************************************************)
(* Characters and literal texts of the source.                             *)
(***************************************************************************)

\* What str.strip() strips and the regex class \s matches.
Whitespace == {" ", "\n", "\t"}

\* The literal '</think>' of check_format's pattern.
THINK_CLOSE == <<"<", "/", "t", "h", "i", "n", "k", ">">>

\* The literal '<answer>' of both patterns.
ANSWER_OPEN == <<"<", "a", "n", "s", "w", "e", "r", ">">>

\* The literal '</answer>' of both patterns.
ANSWER_CLOSE == <<"<", "/", "a", "n", "s", "w", "e", "r", ">">>

\* The literal '\boxed{' of normalize_answer's pattern (regex \\boxed\{).
BOXED_OPEN == <<"\\", "b", "o", "x", "e", "d", "{">>

\* The literal '}' closing it (regex \}).
BOXED_CLOSE == <<"}">>

\* Optional[str]: None is no str (every element of a str is one character).
None == <<"None">>

\* The exception str methods raise on None.
AttributeError == <<"AttributeError">>

(***************************************************************************)
(* The regular expressions of the source, as Python's re runs them.        *)
(* A pattern is a sequence of items; matching keeps the set of positions   *)
(* (0..Len(s), a position is the number of characters consumed) that some  *)
(* backtracking path of the matcher can be at.                             *)
(***************************************************************************)

\* A literal text.
Lit(text) == [op |-> "lit", cls |-> "", text |-> text]

\* cls* (or cls*?: the same set of paths, tried in the other order).
Star(cls) == [op |-> "star", cls |-> cls, text |-> <<>>]

\* ^ without re.MULTILINE.
Bol == [op |-> "bol", cls |-> "", text |-> <<>>]

\* $ without re.MULTILINE: the end, or just before a newline that ends s.
Eol == [op |-> "eol", cls |-> "", text |-> <<>>]

\* The character classes used: '.' under re.DOTALL, '.' without it, \s.
InClass(cls, c) ==
  CASE cls = "dotall" -> TRUE
    [] cls = "dot" -> c # "\n"
    [] cls = "space" -> c \in Whitespace

\* The positions one item leads to from the positions P.
StepItem(item, s, P) ==
  CASE item.op = "lit" ->
         {p + Len(item.text) :
            p \in {q \in P : /\ q + Len(item.text) <= Len(s)
                              /\ SubSeq(s, q + 1, q + Len(item.text)) = item.text}}
    [] item.op = "star" ->
         LET stop == {k \in 1..Len(s) : ~InClass(item.cls, s[k])}
         IN {q \in 0..Len(s) :
               \E p \in P : p <= q /\ \A k \in stop : k <= p \/ k > q}
    [] item.op = "bol" -> P \cap {0}
    [] item.op = "eol" ->
         {p \in P : \/ p = Len(s)
                    \/ p = Len(s) - 1 /\ s[Len(s)] = "\n"}

\* The positions the items k.. of pat lead to from the positions P.
RECURSIVE Run(_, _, _, _)
Run(pat, k, s, P) ==
  IF k > Len(pat) \/ P = {} THEN P
  ELSE Run(pat, k + 1, s, StepItem(pat[k], s, P))

\* Whether pat matches s starting at position p.
MatchesAt(pat, s, p) == Run(pat, 1, s, {p}) # {}

\* The least and the greatest of a set of positions.
Min(S) == CHOOSE x \in S : \A y \in S : x <= y

Max(S) == CHOOSE x \in S : \A y \in S : x >= y

\* re.match(pat, s): a match starting at position 0, as a truth value.
ReMatch(pat, s) == MatchesAt(pat, s, 0)

\* re.search of pre(cls*?)post, pre a literal text: group 1 of the leftmost
\* match, the shortest span the rest can match after; None when no match.
ReSearchLazyGroup(pre, cls, post, s) ==
  LET whole == <<Lit(pre), Star(cls)>> \o post
      starts == {p \in 0..Len(s) : MatchesAt(whole, s, p)}
  IN IF starts = {} THEN None
     ELSE LET open == Min(starts) + Len(pre)
              close == Min({q \in Run(<<Star(cls)>>, 1, s, {open}) :
                              MatchesAt(post, s, q)})
          IN SubSeq(s, open + 1, close)

\* The same search with a greedy group, (cls*): the longest span.
ReSearchGreedyGroup(pre, cls, post, s) ==
  LET whole == <<Lit(pre), Star(cls)>> \o post
      starts == {p \in 0..Len(s) : MatchesAt(whole, s, p)}
  IN IF starts = {} THEN None
     ELSE LET open == Min(starts) + Len(pre)
              close == Max({q \in Run(<<Star(cls)>>, 1, s, {open}) :
                              MatchesAt(post, s, q)})
          IN SubSeq(s, open + 1, close)

\* str.strip(): without leading and trailing whitespace.
Strip(s) ==
  LET keep == {i \in 1..Len(s) : s[i] \notin Whitespace}
  IN IF keep = {} THEN <<>> ELSE SubSeq(s, Min(keep), Max(keep))

\* re.sub(r'[\$,\s]', '', s): every '$', ',' and whitespace character deleted.
ReSubRemove(s) ==
  LET Kept(c) == c \notin ({"$", ","} \cup Whitespace)
  IN SelectSeq(s, Kept)

(***************************************************************************)
(* The four functions.                                                     *)
(***************************************************************************)

\* r'^.*</think>\s*<answer>.*</answer>\s*$' with re.DOTALL
FormatPattern ==
  <<Bol, Star("dotall"), Lit(THINK_CLOSE), Star("space"), Lit(ANSWER_OPEN),
    Star("dotall"), Lit(ANSWER_CLOSE), Star("space"), Eol>>

\* Slip: the pattern without its final $.
check_format_unanchored(response_str) ==
  ReMatch(SubSeq(FormatPattern, 1, Len(FormatPattern) - 1), response_str)

\* Slip: the pattern without its '</answer>', r'^.*</think>\s*<answer>.*$'.
check_format_no_close(response_str) ==
  ReMatch(<<Bol, Star("dotall"), Lit(THINK_CLOSE), Star("space"),
            Lit(ANSWER_OPEN), Star("dotall"), Eol>>, response_str)

check_format(response_str) == ReMatch(FormatPattern, response_str)

\* Slip: no .strip().
extract_answer_unstripped(response_str) ==
  ReSearchLazyGroup(ANSWER_OPEN, "dotall", <<Lit(ANSWER_CLOSE)>>, response_str)

\* Slip: (.*) for (.*?).
extract_answer_greedy(response_str) ==
  LET match == ReSearchGreedyGroup(ANSWER_OPEN, "dotall", <<Lit(ANSWER_CLOSE)>>,
                                   response_str)
  IN IF match # None THEN Strip(match) ELSE None

\* Slip: match.group(0), the whole match, for match.group(1).
extract_answer_whole_match(response_str) ==
  LET match == ReSearchLazyGroup(ANSWER_OPEN, "dotall", <<Lit(ANSWER_CLOSE)>>,
                                 response_str)
  IN IF match # None THEN Strip(ANSWER_OPEN \o match \o ANSWER_CLOSE) ELSE None

extract_answer(response_str) ==
  LET match == ReSearchLazyGroup(ANSWER_OPEN, "dotall", <<Lit(ANSWER_CLOSE)>>,
                                 response_str)
  IN IF match # None THEN Strip(match) ELSE None

\* Slip: \\boxed\{(.*)\} for \\boxed\{(.*?)\}.
normalize_answer_greedy(answer) ==
  IF answer = None THEN AttributeError
  ELSE LET removed == ReSubRemove(Strip(answer))
           boxed_match == ReSearchGreedyGroup(BOXED_OPEN, "dot",
                                              <<Lit(BOXED_CLOSE)>>, removed)
       IN IF boxed_match # None THEN boxed_match ELSE removed

\* Slip: [\$,] for [\$,\s], whitespace inside the answer is kept.
normalize_answer_keep_spaces(answer) ==
  IF answer = None THEN AttributeError
  ELSE LET KeptChar(c) == c \notin {"$", ","}
           removed == SelectSeq(Strip(answer), KeptChar)
           boxed_match == ReSearchLazyGroup(BOXED_OPEN, "dot",
                                            <<Lit(BOXED_CLOSE)>>, removed)
       IN IF boxed_match # None THEN boxed_match ELSE removed

normalize_answer(answer) ==
  IF answer = None THEN AttributeError
  ELSE LET stripped == Strip(answer)
           removed == ReSubRemove(stripped)
           boxed_match == ReSearchLazyGroup(BOXED_OPEN, "dot", <<Lit(BOXED_CLOSE)>>,
                                            removed)
       IN IF boxed_match # None THEN boxed_match ELSE removed

\* A call that returned value / that raised exc.
Returns(value) == [exc |-> "", value |-> value]

Raises(exc) == [exc |-> exc, value |-> 0]

\* Slip: the answer is looked at only when the format check passed.
compute_score_nested(solution_str, ground_truth, format_reward, correct_reward) ==
  IF check_format(solution_str)
    THEN LET answer_content == extract_answer(solution_str)
         IN IF /\ answer_content # None
               /\ normalize_answer(answer_content) = normalize_answer(ground_truth)
              THEN Returns(format_reward + correct_reward)
              ELSE Returns(format_reward)
    ELSE Returns(0)

\* Slip: the answer and the ground truth are compared as they are.
compute_score_raw_compare(solution_str, ground_truth, format_reward, correct_reward) ==
  LET total_score1 == IF check_format(solution_str) THEN format_reward ELSE 0
      answer_content == extract_answer(solution_str)
  IN IF answer_content # None /\ answer_content = ground_truth
       THEN Returns(total_score1 + correct_reward)
       ELSE Returns(total_score1)

\* Slip: no 'is not None' test before normalize_answer.
compute_score_unguarded(solution_str, ground_truth, format_reward, correct_reward) ==
  LET total_score1 == IF check_format(solution_str) THEN format_reward ELSE 0
      normalized_answer == normalize_answer(extract_answer(solution_str))
      normalized_ground_truth == normalize_answer(ground_truth)
  IN IF AttributeError \in {normalized_answer, normalized_ground_truth}
       THEN Raises("AttributeError")
       ELSE IF normalized_answer = normalized_ground_truth
              THEN Returns(total_score1 + correct_reward)
              ELSE Returns(total_score1)

compute_score(solution_str, ground_truth, format_reward, correct_reward) ==
  LET total_score0 == 0
      total_score1 == IF check_format(solution_str)
                        THEN total_score0 + format_reward
                        ELSE total_score0
      answer_content == extract_answer(solution_str)
  IN IF answer_content # None
       THEN LET normalized_answer == normalize_answer(answer_content)
                normalized_ground_truth == normalize_answer(ground_truth)
            IN IF AttributeError \in {normalized_answer, normalized_ground_truth}
                 THEN Raises("AttributeError")
                 ELSE IF normalized_answer = normalized_ground_truth
                        THEN Returns(total_score1 + correct_reward)
                        ELSE Returns(total_score1)
       ELSE Returns(total_score1)

(***************************************************************************)
(* The inputs: texts built from a few pieces, the markers among them.      *)
(***************************************************************************)

\* The texts of at most n pieces.
RECURSIVE Texts(_, _)
Texts(pieces, n) ==
  IF n = 0 THEN {<<>>}
  ELSE LET shorter == Texts(pieces, n - 1)
       IN shorter \cup {t \o p : t \in shorter, p \in pieces}

\* Bound: the pieces of a response given to check_format or extract_answer.
MaxPieces == 5

\* Bound: the pieces of a solution_str given to compute_score.
MaxScorePieces == 3

\* Bound: the pieces of an answer given to normalize_answer.
MaxAnswerPieces == 4

\* The text '\boxed{7}'.
BOXED7 == BOXED_OPEN \o <<"7">> \o BOXED_CLOSE

\* The text '\bo xed{', which is '\boxed{' once its space is deleted.
BOXED_OPEN_SPACED == <<"\\", "b", "o", " ", "x", "e", "d", "{">>

ResponsePieces == {THINK_CLOSE, ANSWER_OPEN, ANSWER_CLOSE, <<"\n">>, <<"7">>}

ScorePieces == {THINK_CLOSE, ANSWER_OPEN, ANSWER_CLOSE, <<"7">>, BOXED7}

AnswerPieces ==
  {<<"$">>, <<",">>, <<" ">>, <<"7">>, <<"{">>, <<"}">>, BOXED_OPEN,
   BOXED_OPEN_SPACED}

\* 'reasoning</think><answer>42</answer>'
ScenarioAB ==
  <<"r", "e", "a", "s", "o", "n", "i", "n", "g">> \o THINK_CLOSE
    \o ANSWER_OPEN \o <<"4", "2">> \o ANSWER_CLOSE

\* '</think><answer>\boxed{7}</answer>'
ScenarioD == THINK_CLOSE \o ANSWER_OPEN \o BOXED7 \o ANSWER_CLOSE

\* '\boxed{a{b}c}'
NestedBoxed == BOXED_OPEN \o <<"a", "{", "b", "}", "c", "}">>

\* '<answer>7</answer></think><answer></answer>'
EarlyAnswer ==
  ANSWER_OPEN \o <<"7">> \o ANSWER_CLOSE \o THINK_CLOSE \o ANSWER_OPEN
    \o ANSWER_CLOSE

\* A whole final answer block, which makes the format check pass.
FinalBlocks ==
  {THINK_CLOSE \o ANSWER_OPEN \o ANSWER_CLOSE,
   THINK_CLOSE \o ANSWER_OPEN \o <<"7">> \o ANSWER_CLOSE}

\* Texts put after a response: nothing, one more piece, a final block.
Suffixes == {<<>>} \cup ResponsePieces \cup FinalBlocks

Responses == Texts(ResponsePieces, MaxPieces)

Answers == Texts(AnswerPieces, MaxAnswerPieces) \cup {NestedBoxed}

GroundTruths == {<<>>, <<"7">>, <<"$", " ">> \o BOXED7}

\* format_reward = 0.5 and correct_reward = 0.5, the defaults, in halves.
DefaultFormatReward == 1

DefaultCorrectReward == 1

\* The weights given: the defaults, and (0.5, 1.0).
Rewards == {<<DefaultFormatReward, DefaultCorrectReward>>, <<1, 2>>}

\* The calls of compute_score: <<solution_str, ground_truth, weights>>.
ScoreCalls ==
  (Texts(ScorePieces, MaxScorePieces) \X GroundTruths \X Rewards)
    \cup ({ScenarioAB} \X {<<"4", "2">>, <<"4", "3">>} \X Rewards)
    \cup ({ScenarioD, EarlyAnswer} \X GroundTruths \X Rewards)

(***************************************************************************)
(* The state machine: a call of one of the four functions with arguments   *)
(* from the sets above, and its return.                                    *)
(***************************************************************************)

Init ==
  /\ pc = "call"
  /\ ret = <<>>
  /\ raised = ""
  /\ \/ /\ fn \in {"check_format", "extract_answer"}
        /\ args \in {[response_str |-> r] : r \in Responses}
     \/ /\ fn = "normalize_answer"
        /\ args \in {[answer |-> a] : a \in Answers}
     \/ /\ fn = "compute_score"
        /\ args \in {[solution_str |-> c[1], ground_truth |-> c[2],
                       format_reward |-> c[3][1], correct_reward |-> c[3][2]] :
                        c \in ScoreCalls}

CheckFormat ==
  /\ pc = "call"
  /\ fn = "check_format"
  /\ ret' = check_format(args.response_str)
  /\ pc' = "return"
  /\ UNCHANGED <<fn, args, raised>>

ExtractAnswer ==
  /\ pc = "call"
  /\ fn = "extract_answer"
  /\ ret' = extract_answer(args.response_str)
  /\ pc' = "return"
  /\ UNCHANGED <<fn, args, raised>>

NormalizeAnswer ==
  /\ pc = "call"
  /\ fn = "normalize_answer"
  /\ ret' = normalize_answer(args.answer)
  /\ pc' = "return"
  /\ UNCHANGED <<fn, args, raised>>

ComputeScore ==
  /\ pc = "call"
  /\ fn = "compute_score"
  /\ LET r == compute_score(args.solution_str, args.ground_truth,
                            args.format_reward, args.correct_reward)
     IN /\ ret' = r.value
        /\ raised' = r.exc
  /\ pc' = "return"
  /\ UNCHANGED <<fn, args>>

Next ==
  \/ CheckFormat
  \/ ExtractAnswer
  \/ NormalizeAnswer
  \/ ComputeScore

Spec == Init /\ [][Next]_vars

\* The call of f has returned.
Returned(f) == pc = "return" /\ fn = f

(***************************************************************************)
(* Texts, described without the regular expressions.                       *)
(***************************************************************************)

\* The places (index of the first character) where text m occurs in s.
Occurrences(m, s) ==
  {i \in 1..(Len(s) - Len(m) + 1) : SubSeq(s, i, i + Len(m) - 1) = m}

\* Only whitespace at the indexes a..b of s.
OnlyWhitespace(s, a, b) == \A k \in a..b : s[k] \in Whitespace

\* s = X + '</think>' + W1 + '<answer>' + Y + '</answer>' + W2 for some texts
\* X, Y and some whitespace W1, W2.
FormatSplit(s) ==
  \E i \in Occurrences(THINK_CLOSE, s), j \in Occurrences(ANSWER_OPEN, s),
     k \in Occurrences(ANSWER_CLOSE, s) :
       /\ i + Len(THINK_CLOSE) <= j
       /\ OnlyWhitespace(s, i + Len(THINK_CLOSE), j - 1)
       /\ j + Len(ANSWER_OPEN) <= k
       /\ OnlyWhitespace(s, k + Len(ANSWER_CLOSE), Len(s))

\* s holds an '<answer>' that is followed later by an '</answer>'.
HasAnswerPair(s) ==
  \E i \in Occurrences(ANSWER_OPEN, s), k \in Occurrences(ANSWER_CLOSE, s) :
    i + Len(ANSWER_OPEN) <= k

\* The text between the first '<answer>' of s and the first '</answer>' after it.
FirstAnswerText(s) ==
  LET i == Min(Occurrences(ANSWER_OPEN, s)) + Len(ANSWER_OPEN)
      k == Min({c \in Occurrences(ANSWER_CLOSE, s) : i <= c})
  IN SubSeq(s, i, k - 1)

\* r is t without its leading and trailing whitespace.
IsStripped(r, t) ==
  /\ r = <<>> \/ (r[1] \notin Whitespace /\ r[Len(r)] \notin Whitespace)
  /\ \E a \in 0..(Len(t) - Len(r)) :
       /\ SubSeq(t, a + 1, a + Len(r)) = r
       /\ OnlyWhitespace(t, 1, a)
       /\ OnlyWhitespace(t, a + Len(r) + 1, Len(t))

(***************************************************************************)
(* The properties.                                                         *)
(***************************************************************************)

\* The format credit and the correctness credit of a call of compute_score.
FormatCredit(a) == IF check_format(a.solution_str) THEN a.format_reward ELSE 0

CorrectCredit(a) ==
  IF /\ extract_answer(a.solution_str) # None
     /\ normalize_answer(extract_answer(a.solution_str))
          = normalize_answer(a.ground_truth)
    THEN a.correct_reward ELSE 0

\* C1: compute_score returns the format credit (format_reward when
\* check_format holds, else 0) plus the correctness credit (correct_reward
\* when an answer is extracted and normalizes like the ground truth, else 0),
\* each decided on its own, so one of 0, format_reward, correct_reward and
\* their sum.
C1_ScoreIsSumOfCredits ==
  Returned("compute_score") =>
    /\ raised = ""
    /\ ret = FormatCredit(args) + CorrectCredit(args)
    /\ ret \in {0, args.format_reward, args.correct_reward,
                args.format_reward + args.correct_reward}

\* C1 happens: the correctness credit alone is earned, by a response whose
\* format check fails.
C1_Witness ==
  /\ Returned("compute_score")
  /\ ~check_format(args.solution_str)
  /\ args.format_reward # args.correct_reward
  /\ ret = args.correct_reward

\* C2: check_format is true exactly for the texts
\* X + '</think>' + W1 + '<answer>' + Y + '</answer>' + W2 with W1 and W2
\* whitespace; so it is false when a marker is missing and when something
\* other than whitespace follows the last '</answer>'.
C2_FormatIffSplit ==
  Returned("check_format") =>
    LET s == args.response_str
        closes == Occurrences(ANSWER_CLOSE, s)
    IN /\ ret = FormatSplit(s)
       /\ ret => /\ Occurrences(THINK_CLOSE, s) # {}
                 /\ Occurrences(ANSWER_OPEN, s) # {}
                 /\ closes # {}
                 /\ OnlyWhitespace(s, Max(closes) + Len(ANSWER_CLOSE), Len(s))

\* C2 happens: a text with whitespace W1 and W2 and an answer Y passes.
C2_Witness ==
  /\ Returned("check_format")
  /\ ret = TRUE
  /\ args.response_str
       = THINK_CLOSE \o <<"\n">> \o ANSWER_OPEN \o <<"7">> \o ANSWER_CLOSE

\* C3: extract_answer is None exactly when no '<answer>' is followed later by
\* an '</answer>'; otherwise it is the text between the first '<answer>' and
\* the first '</answer>' after it, stripped, which may be empty and is then
\* still not None.
C3_ExtractFirstPair ==
  Returned("extract_answer") =>
    LET s == args.response_str
    IN /\ (ret = None) <=> ~HasAnswerPair(s)
       /\ HasAnswerPair(s) => IsStripped(ret, FirstAnswerText(s))
       /\ <<>> # None

\* C3 happens: an answer of whitespace only is extracted as the empty text.
C3_Witness ==
  /\ Returned("extract_answer")
  /\ ret = <<>>
  /\ args.response_str = ANSWER_OPEN \o <<"\n">> \o ANSWER_CLOSE

\* x with every '$', ',' and whitespace character deleted.
RECURSIVE Deleted(_)
Deleted(x) ==
  IF x = <<>> THEN <<>>
  ELSE IF Head(x) \in {"$", ",", " ", "\n", "\t"} THEN Deleted(Tail(x))
  ELSE <<Head(x)>> \o Deleted(Tail(x))

\* The places of the '\boxed{' of y that are followed later by a '}'.
ClosedBoxes(y) ==
  {i \in Occurrences(BOXED_OPEN, y) :
     \E k \in Occurrences(BOXED_CLOSE, y) : i + Len(BOXED_OPEN) <= k}

\* The text between the first such '\boxed{' of y and the first '}' after it.
FirstBoxedText(y) ==
  LET i == Min(ClosedBoxes(y)) + Len(BOXED_OPEN)
      k == Min({c \in Occurrences(BOXED_CLOSE, y) : i <= c})
  IN SubSeq(y, i, k - 1)

\* C4: normalize_answer(x) is x with every '$', ',' and whitespace character
\* deleted, and of that only the text between the first '\boxed{' that a '}'
\* follows and the first '}' after it, when there is one; braces are not
\* balanced: '\boxed{a{b}c}' gives 'a{b'.
C4_NormalizeDeletesThenUnboxes ==
  Returned("normalize_answer") =>
    LET y == Deleted(args.answer)
    IN /\ ret = IF ClosedBoxes(y) # {} THEN FirstBoxedText(y) ELSE y
       /\ args.answer = NestedBoxed => ret = <<"a", "{", "b">>

\* C4 happens: '\boxed{a{b}c}' is normalized, and cut at its first '}'.
C4_Witness ==
  /\ Returned("normalize_answer")
  /\ args.answer = NestedBoxed
  /\ ret = <<"a", "{", "b">>

\* The default weights.
DefaultRewards(a) ==
  /\ a.format_reward = DefaultFormatReward
  /\ a.correct_reward = DefaultCorrectReward

\* s = R + '</think>' + '<answer>' + A + '</answer>', no marker in R or in A.
PlainResponse(s) ==
  LET thinks == Occurrences(THINK_CLOSE, s)
      opens == Occurrences(ANSWER_OPEN, s)
      closes == Occurrences(ANSWER_CLOSE, s)
  IN /\ Cardinality(thinks) = 1
     /\ Cardinality(opens) = 1
     /\ Cardinality(closes) = 1
     /\ Min(opens) = Min(thinks) + Len(THINK_CLOSE)
     /\ Min(opens) + Len(ANSWER_OPEN) <= Min(closes)
     /\ Min(closes) + Len(ANSWER_CLOSE) - 1 = Len(s)

\* The A of such a response.
PlainAnswer(s) ==
  SubSeq(s, Min(Occurrences(ANSWER_OPEN, s)) + Len(ANSWER_OPEN),
         Min(Occurrences(ANSWER_CLOSE, s)) - 1)

\* C5: with the default weights, a response R</think><answer>A</answer> (no
\* marker in R or A) scores 1.0 when A normalizes like the ground truth and
\* 0.5 when it does not, and a response without an <answer>...</answer> pair
\* scores 0.0, whatever the ground truth.
C5_DefaultScenarios ==
  (Returned("compute_score") /\ DefaultRewards(args)) =>
    LET s == args.solution_str
    IN /\ PlainResponse(s) =>
            ret = IF normalize_answer(PlainAnswer(s))
                      = normalize_answer(args.ground_truth)
                    THEN 2 ELSE 1
       /\ ~HasAnswerPair(s) => ret = 0

\* C5 happens: 'reasoning</think><answer>42</answer>' scores 1.0 against '42'.
C5_Witness ==
  /\ Returned("compute_score")
  /\ DefaultRewards(args)
  /\ args.solution_str = ScenarioAB
  /\ args.ground_truth = <<"4", "2">>
  /\ ret = 2

\* C6: normalizing a normalized answer changes nothing.
C6_NormalizeIdempotent ==
  Returned("normalize_answer") => normalize_answer(ret) = ret

\* C6 happens: an answer with two '\boxed{' has been cut to the content of
\* the first.
C6_Witness ==
  /\ Returned("normalize_answer")
  /\ Cardinality(Occurrences(BOXED_OPEN, Deleted(args.answer))) >= 2
  /\ ClosedBoxes(Deleted(args.answer)) # {}
  /\ ret # <<>>

\* C7: an extracted answer, wrapped in '<answer>' and '</answer>', is
\* extracted as itself.
C7_ExtractRewrapped ==
  (Returned("extract_answer") /\ ret # None) =>
    extract_answer(ANSWER_OPEN \o ret \o ANSWER_CLOSE) = ret

\* C7 happens: the extracted answer itself holds an '<answer>'.
C7_Witness ==
  /\ Returned("extract_answer")
  /\ ret # None
  /\ Occurrences(ANSWER_OPEN, ret) # {}

\* A str: no element is the mark of None or of an exception.
IsStr(x) == \A i \in 1..Len(x) : x[i] \notin {"None", "AttributeError"}

\* C8: every call returns a value of its type and raises nothing:
\* check_format a truth value, extract_answer None or a str, normalize_answer
\* a str, compute_score a number, which is 0 when neither component matches
\* (normalize_answer is then not applied to None).
C8_Total ==
  /\ raised = ""
  /\ Returned("check_format") => ret \in BOOLEAN
  /\ Returned("extract_answer") => (ret = None \/ IsStr(ret))
  /\ Returned("normalize_answer") => IsStr(ret)
  /\ Returned("compute_score") =>
       /\ ret \in Nat
       /\ (~check_format(args.solution_str)
             /\ extract_answer(args.solution_str) = None) => ret = 0

\* C8 happens: compute_score of the empty response, nothing to extract.
C8_Witness ==
  /\ Returned("compute_score")
  /\ args.solution_str = <<>>
  /\ raised = ""
  /\ ret = 0

\* C9: a response that passes check_format has an extractable answer; so a
\* response without one scores 0.
C9_FormatImpliesExtractable ==
  /\ (Returned("check_format") /\ ret = TRUE) =>
       extract_answer(args.response_str) # None
  /\ (Returned("compute_score") /\ extract_answer(args.solution_str) = None) =>
       ret = 0

\* C9 happens: a response passes check_format, and its answer is the empty
\* text.
C9_Witness ==
  /\ Returned("check_format")
  /\ ret = TRUE
  /\ extract_answer(args.response_str) = <<>>

\* The score of the call a given t after its response, less the format credit.
CorrectCreditAfter(a, t) ==
  LET s == a.solution_str \o t
  IN compute_score(s, a.ground_truth, a.format_reward, a.correct_reward).value
       - (IF check_format(s) THEN a.format_reward ELSE 0)

\* C10: text put after a response with an extractable answer changes neither
\* the answer extracted nor the correctness credit, also when it is a final
\* '</think><answer>...</answer>' block that makes the format check pass.
C10_SuffixKeepsAnswer ==
  /\ (Returned("extract_answer") /\ ret # None) =>
       \A t \in Suffixes : extract_answer(args.response_str \o t) = ret
  /\ (Returned("compute_score") /\ extract_answer(args.solution_str) # None) =>
       \A t \in FinalBlocks :
         CorrectCreditAfter(args, t) = ret - FormatCredit(args)

\* C10 happens: the answer scored stands before '</think>', and is not the
\* answer of the final block, which is empty.
C10_Witness ==
  /\ Returned("compute_score")
  /\ args.solution_str = EarlyAnswer
  /\ args.ground_truth = <<"7">>
  /\ ret = args.format_reward + args.correct_reward

====
